---- MODULE Spec2Model ----
(***************************************************************************)
(* Model of app.py: a Streamlit quiz runner.  The script is re-run from    *)
(* top to bottom on every user interaction; st.session_state survives the  *)
(* runs.  A state of the model is the session state when a run has ended   *)
(* and the page waits for the user.  One action is one interaction: the    *)
(* run it triggers, the handler of the pressed button, and the run that    *)
(* st.rerun() starts afterwards.                                           *)
(***************************************************************************)
EXTENDS Integers, Sequences, FiniteSets, TLC

\* ---- bounds ----
BankSize == 2        \* questions in the bank file
MaxHistory == 1      \* entries of history before the model stops finishing sessions
MaxExtraMissed == 0  \* entries incorrect_indices may hold beyond one per question

\* ---- the question bank (load_questions) ----
OptionKeys == {"A", "B"}
None == "None"

raw_questions ==
  [i \in 1..BankSize |-> [id |-> i, answer_key |-> IF i % 2 = 1 THEN "A" ELSE "B"]]

\* random.shuffle: any permutation of the bank
Shuffles ==
  {p \in [1..BankSize -> 1..BankSize] : \A i, j \in 1..BankSize : p[i] = p[j] => i = j}

\* ---- the save code: base64 over JSON ----
\* A code is text that is valid base64 or not; what it decodes to is text
\* that parses as JSON or not; the parsed value is an object or not.
json_dumps(state_data) == [json |-> TRUE, object |-> TRUE, value |-> state_data]
b64encode(json_str) == [b64 |-> TRUE, text |-> json_str]

StateKeys ==
  {"current_index", "score", "quiz_data", "history", "incorrect_indices",
   "simulation_mode", "user_answers"}

\* a save code written without the recorded answers
generate_save_code_no_answers(s) ==
  LET state_data ==
        [current_index     |-> s.current_index,
         score             |-> s.score,
         quiz_data         |-> s.quiz_data,
         history           |-> s.history,
         incorrect_indices |-> s.incorrect_indices,
         simulation_mode   |-> s.simulation_mode]
  IN b64encode(json_dumps(state_data))

generate_save_code(s) ==
  LET state_data ==
        [current_index     |-> s.current_index,
         score             |-> s.score,
         quiz_data         |-> s.quiz_data,
         history           |-> s.history,
         incorrect_indices |-> s.incorrect_indices,
         simulation_mode   |-> s.simulation_mode,
         user_answers      |-> s.user_answers]
  IN b64encode(json_dumps(state_data))

\* dict.get(key, default)
Get(state_data, key, default) ==
  IF key \in DOMAIN state_data THEN state_data[key] ELSE default

\* a load that indexes the payload (state_data['score']) and so raises on a
\* missing field
LoadRaisesOnMissing(code) ==
  ~code.b64 \/ ~code.text.json \/ ~code.text.object
    \/ DOMAIN code.text.value # StateKeys

\* TRUE when the try block of load_save_code raises: b64decode/.decode(),
\* json.loads, or .get on a value that is not a dict.  All three come before
\* the first assignment.
LoadRaises(code) == ~code.b64 \/ ~code.text.json \/ ~code.text.object

\* a load that adds the stored ledger to the one in memory
LoadAssignMergesHistory(s, code) ==
  LET state_data == code.text.value
  IN [s EXCEPT !.current_index     = Get(state_data, "current_index", 0),
               !.score             = Get(state_data, "score", 0),
               !.quiz_data         = Get(state_data, "quiz_data", <<>>),
               !.history           = s.history \o Get(state_data, "history", <<>>),
               !.incorrect_indices = Get(state_data, "incorrect_indices", <<>>),
               !.simulation_mode   = Get(state_data, "simulation_mode", FALSE),
               !.user_answers      = Get(state_data, "user_answers", <<>>),
               !.game_active       = TRUE,
               !.quiz_finished     = FALSE,
               !.answer_submitted  = FALSE]

\* The session state after the assignments of load_save_code (no exception).
LoadAssign(s, code) ==
  LET state_data == code.text.value
  IN [s EXCEPT !.current_index     = Get(state_data, "current_index", 0),
               !.score             = Get(state_data, "score", 0),
               !.quiz_data         = Get(state_data, "quiz_data", <<>>),
               !.history           = Get(state_data, "history", <<>>),
               !.incorrect_indices = Get(state_data, "incorrect_indices", <<>>),
               !.simulation_mode   = Get(state_data, "simulation_mode", FALSE),
               !.user_answers      = Get(state_data, "user_answers", <<>>),
               !.game_active       = TRUE,
               !.quiz_finished     = FALSE,
               !.answer_submitted  = FALSE]

\* a load that resets the session before it decodes the code
load_save_code_resets_first(s, code) ==
  IF LoadRaises(code)
  THEN <<FALSE, [s EXCEPT !.current_index = 0, !.score = 0]>>
  ELSE <<TRUE, LoadAssign(s, code)>>

\* load_save_code: <<return value, session state>>
load_save_code(s, code) ==
  IF LoadRaises(code) THEN <<FALSE, s>> ELSE <<TRUE, LoadAssign(s, code)>>

\* codes that are not valid: not base64, base64 of text that is not JSON
\* (the empty input included), base64 of a JSON value that is not an object
NotBase64 == [b64 |-> FALSE, text |-> [json |-> FALSE, object |-> FALSE, value |-> <<>>]]
NotJson   == [b64 |-> TRUE,  text |-> [json |-> FALSE, object |-> FALSE, value |-> <<>>]]
NotObject == [b64 |-> TRUE,  text |-> [json |-> TRUE,  object |-> FALSE, value |-> <<>>]]
MalformedCodes == {NotBase64, NotJson, NotObject}

\* ---- the screens ----
HomeScreen(s)     == ~s.game_active /\ ~s.quiz_finished
GameScreen(s)     == s.game_active /\ ~s.quiz_finished
GameOverScreen(s) == ~HomeScreen(s) /\ ~GameScreen(s) /\ s.quiz_finished

\* lines 177-178
qs_answered(s) == s.current_index + (IF s.answer_submitted THEN 1 ELSE 0)

\* Lines 165-201 raise nothing: the progress values are within [0, 1], the
\* current question exists, and a recorded answer is one of the options.
GameRenders(s) ==
  /\ Len(s.quiz_data) > 0
  /\ s.current_index + 1 <= Len(s.quiz_data)
  /\ ~s.simulation_mode =>
       (qs_answered(s) > 0 => (0 <= s.score /\ s.score <= qs_answered(s)))
  /\ (s.simulation_mode /\ s.current_index < Len(s.user_answers)) =>
       s.user_answers[s.current_index + 1] \in OptionKeys

\* lines 189-193 and the radio's index: the option a new radio shows selected
pre_selected(s) ==
  IF GameScreen(s) /\ GameRenders(s) /\ s.simulation_mode
     /\ s.current_index < Len(s.user_answers)
  THEN s.user_answers[s.current_index + 1]
  ELSE None

\* lines 216-229: the feedback branch of Study mode, with its scoring
StudyFeedback(s, choice) ==
  LET q == s.quiz_data[s.current_index + 1]
  IN IF s.scored_current THEN s
     ELSE IF choice = q.answer_key
          THEN [s EXCEPT !.score = s.score + 1, !.scored_current = TRUE]
          ELSE [s EXCEPT !.incorrect_indices = Append(s.incorrect_indices, q),
                         !.scored_current = TRUE]

\* What a run of the game screen does to the state apart from its buttons.
RenderGame(s, choice) ==
  IF GameRenders(s) /\ ~s.simulation_mode /\ s.answer_submitted /\ choice # None
  THEN StudyFeedback(s, choice)
  ELSE s

\* lines 278-284: the loop over quiz_data from position i on (1-based)
RECURSIVE SimScoreLoop(_, _)
SimScoreLoop(s, i) ==
  IF i > Len(s.quiz_data) THEN s
  ELSE LET q == s.quiz_data[i]
           user_ans == IF i <= Len(s.user_answers) THEN s.user_answers[i] ELSE None
       IN IF user_ans = q.answer_key
          THEN SimScoreLoop([s EXCEPT !.score = s.score + 1], i + 1)
          ELSE SimScoreLoop(
                 [s EXCEPT !.incorrect_indices = Append(s.incorrect_indices, q)], i + 1)

\* a scoring loop that starts at the second question
SimScoreSkipsFirst(s) ==
  IF s.simulation_mode /\ ~s.sim_scored
  THEN [SimScoreLoop([s EXCEPT !.score = 0, !.incorrect_indices = <<>>], 2)
          EXCEPT !.sim_scored = TRUE]
  ELSE s

\* a scoring pass without the sim_scored guard and the reset
SimScoreEveryRun(s) ==
  IF s.simulation_mode
  THEN [SimScoreLoop(s, 1) EXCEPT !.sim_scored = TRUE]
  ELSE s

\* lines 275-285
SimScore(s) ==
  IF s.simulation_mode /\ ~s.sim_scored
  THEN [SimScoreLoop([s EXCEPT !.score = 0, !.incorrect_indices = <<>>], 1)
          EXCEPT !.sim_scored = TRUE]
  ELSE s

\* round(percent, 1), in tenths of a percent
PercentTenths(final_score, total) == (2000 * final_score + total) \div (2 * total)

\* lines 290-301 (the Date of the entry is left out)
HistoryEntry(s) ==
  [Score |-> <<s.score, Len(s.quiz_data)>>,
   ScorePct |-> PercentTenths(s.score, Len(s.quiz_data))]

SaveToHistory(s) ==
  IF s.history_saved THEN s
  ELSE [s EXCEPT !.history = Append(s.history, HistoryEntry(s)),
                 !.history_saved = TRUE]

\* line 292 divides by the number of questions
GameOverRenders(s) == Len(s.quiz_data) > 0

\* a game-over run that writes the history entry before it scores
RenderGameOverHistoryFirst(s) ==
  IF GameOverRenders(s) THEN SimScore(SaveToHistory(s)) ELSE SimScore(s)

\* What a run of the game-over screen does to the state apart from its buttons.
RenderGameOver(s) ==
  LET s1 == SimScore(s)
  IN IF GameOverRenders(s1) THEN SaveToHistory(s1) ELSE s1

\* One run of the script with no button pressed.
Render(s, choice) ==
  IF HomeScreen(s) THEN s
  ELSE IF GameScreen(s) THEN RenderGame(s, choice)
  ELSE RenderGameOver(s)

\* ---- state ----
VARIABLES
  session_state,    \* st.session_state
  user_choice,      \* the value of the radio of the current question
  clipboard,        \* the save code the user copied last ("Copy this code")
  last_run          \* the last interaction: the button pressed, what the run
                    \* reported, and for Resume the code that was pasted

vars == <<session_state, user_choice, clipboard, last_run>>

Ran(button, result) == [button |-> button, result |-> result, code |-> NotJson]

\* Lines 58-69.  current_index, score, quiz_data and answer_submitted are not
\* set until Start New Exam or Resume; nothing reads them before.  The marker
\* keys scored_current, sim_scored and history_saved are modelled by booleans:
\* TRUE when the key is in st.session_state.
Init ==
  /\ session_state =
       [game_active |-> FALSE, quiz_finished |-> FALSE, history |-> <<>>,
        incorrect_indices |-> <<>>, simulation_mode |-> FALSE,
        user_answers |-> <<>>, current_index |-> 0, score |-> 0,
        quiz_data |-> <<>>, answer_submitted |-> FALSE,
        scored_current |-> FALSE, sim_scored |-> FALSE, history_saved |-> FALSE]
  /\ user_choice = None
  /\ clipboard = NotJson
  /\ last_run = Ran("", "")

\* a Start New Exam that keeps the answers recorded before
StartExamKeepsAnswers(s, shuffle_opt, sim_mode, q_limit, p) ==
  LET subset_questions ==
        IF shuffle_opt THEN [i \in 1..BankSize |-> raw_questions[p[i]]]
        ELSE raw_questions
  IN [s EXCEPT !.quiz_data = SubSeq(subset_questions, 1, q_limit),
               !.current_index = 0,
               !.score = 0,
               !.incorrect_indices = <<>>,
               !.answer_submitted = FALSE,
               !.simulation_mode = sim_mode,
               !.sim_scored = FALSE,
               !.game_active = TRUE]

\* lines 110-131
StartExam(s, shuffle_opt, sim_mode, q_limit, p) ==
  LET subset_questions ==
        IF shuffle_opt THEN [i \in 1..BankSize |-> raw_questions[p[i]]]
        ELSE raw_questions
  IN [s EXCEPT !.quiz_data = SubSeq(subset_questions, 1, q_limit),
               !.current_index = 0,
               !.score = 0,
               !.incorrect_indices = <<>>,
               !.user_answers = <<>>,
               !.answer_submitted = FALSE,
               !.simulation_mode = sim_mode,
               !.sim_scored = FALSE,
               !.game_active = TRUE]

StartNewExam ==
  /\ HomeScreen(session_state)
  /\ Len(raw_questions) > 0
  /\ \E shuffle_opt \in BOOLEAN, sim_mode \in BOOLEAN, q_limit \in 1..BankSize :
     \E p \in IF shuffle_opt THEN Shuffles ELSE {[i \in 1..BankSize |-> i]} :
       LET s1 == StartExam(session_state, shuffle_opt, sim_mode, q_limit, p)
       IN /\ session_state' = Render(s1, pre_selected(s1))
          /\ user_choice' = pre_selected(s1)
  /\ last_run' = Ran("Start New Exam", "")
  /\ UNCHANGED clipboard

\* lines 136-145
Resume(code) ==
  /\ HomeScreen(session_state)
  /\ LET r == load_save_code(session_state, code)
     IN IF r[1]
        THEN /\ session_state' = Render(r[2], pre_selected(r[2]))
             /\ user_choice' = pre_selected(r[2])
             /\ last_run' = [button |-> "Resume", result |-> "Loaded!", code |-> code]
        ELSE /\ session_state' = r[2]
             /\ user_choice' = user_choice
             /\ last_run' = [button |-> "Resume", result |-> "Invalid Code.",
                             code |-> code]
  /\ UNCHANGED clipboard

\* the user pastes the code copied from Save Progress
ResumeSaved == Resume(clipboard)

\* the user types something that is no save code
ResumeMalformed == \E code \in MalformedCodes : Resume(code)

\* lines 155-158; the rest of the run renders the game screen
SaveProgress ==
  /\ GameScreen(session_state)
  /\ clipboard' = generate_save_code(session_state)
  /\ session_state' = RenderGame(session_state, user_choice)
  /\ last_run' = Ran("Save Progress", "Copy this code")
  /\ UNCHANGED user_choice

\* lines 160-162
QuitToMenu ==
  /\ GameScreen(session_state)
  /\ LET s1 == [session_state EXCEPT !.game_active = FALSE]
     IN session_state' = Render(s1, None)
  /\ user_choice' = None
  /\ last_run' = Ran("Quit to Menu", "")
  /\ UNCHANGED clipboard

\* the user picks an option of the radio (lines 195-201); the run renders
SelectOption ==
  /\ GameScreen(session_state)
  /\ GameRenders(session_state)
  /\ ~session_state.answer_submitted
  /\ \E key \in OptionKeys :
       /\ key # user_choice
       /\ user_choice' = key
       /\ session_state' = RenderGame(session_state, key)
  /\ last_run' = Ran("Select Answer", "")
  /\ UNCHANGED clipboard

\* a Submit that shows the answer whether or not an option is selected
SubmitAnswerUnchecked ==
  /\ GameScreen(session_state)
  /\ GameRenders(session_state)
  /\ ~session_state.simulation_mode
  /\ ~session_state.answer_submitted
  /\ LET s1 == [session_state EXCEPT !.answer_submitted = TRUE]
         s2 == Render(s1, user_choice)
     IN /\ Len(s2.incorrect_indices) <= Len(s2.quiz_data) + MaxExtraMissed
        /\ session_state' = s2
  /\ last_run' = IF user_choice # None
                 THEN Ran("Submit Answer", "")
                 ELSE Ran("Submit Answer", "Please select an option first!")
  /\ UNCHANGED <<user_choice, clipboard>>

\* lines 208-215
SubmitAnswer ==
  /\ GameScreen(session_state)
  /\ GameRenders(session_state)
  /\ ~session_state.simulation_mode
  /\ ~session_state.answer_submitted
  /\ IF user_choice # None
     THEN /\ LET s1 == [session_state EXCEPT !.answer_submitted = TRUE]
                 s2 == Render(s1, user_choice)
             IN /\ Len(s2.incorrect_indices) <= Len(s2.quiz_data) + MaxExtraMissed
                /\ session_state' = s2
          /\ last_run' = Ran("Submit Answer", "")
     ELSE /\ session_state' = session_state
          /\ last_run' = Ran("Submit Answer", "Please select an option first!")
  /\ UNCHANGED <<user_choice, clipboard>>

\* lines 233-243, after the feedback branch of the same run
NextQuestionHandler(s) ==
  LET s1 == [s EXCEPT !.answer_submitted = FALSE, !.scored_current = FALSE]
  IN IF s.current_index + 1 < Len(s.quiz_data)
     THEN [s1 EXCEPT !.current_index = s.current_index + 1]
     ELSE [s1 EXCEPT !.quiz_finished = TRUE, !.game_active = FALSE]

NextQuestion ==
  /\ GameScreen(session_state)
  /\ GameRenders(session_state)
  /\ ~session_state.simulation_mode
  /\ session_state.answer_submitted
  /\ user_choice # None
  /\ LET s0 == RenderGame(session_state, user_choice)
         s1 == NextQuestionHandler(s0)
     IN /\ GameOverScreen(s1) => Len(s1.history) < MaxHistory
        /\ session_state' = Render(s1, pre_selected(s1))
        /\ user_choice' = pre_selected(s1)
  /\ last_run' = Ran("Next Question", "")
  /\ UNCHANGED clipboard

\* a Next / Finish that scores the answer as it records it
SimNextHandlerScores(s, selected_key) ==
  LET q == s.quiz_data[s.current_index + 1]
      s0 == IF selected_key = q.answer_key
            THEN [s EXCEPT !.score = s.score + 1]
            ELSE [s EXCEPT !.incorrect_indices = Append(s.incorrect_indices, q)]
      s1 == IF s.current_index = Len(s.user_answers)
            THEN [s0 EXCEPT !.user_answers = Append(s.user_answers, selected_key)]
            ELSE [s0 EXCEPT !.user_answers[s.current_index + 1] = selected_key]
  IN IF s.current_index + 1 < Len(s.quiz_data)
     THEN [s1 EXCEPT !.current_index = s.current_index + 1]
     ELSE [s1 EXCEPT !.quiz_finished = TRUE, !.game_active = FALSE]

\* a Next / Finish that writes the answer over the last recorded one
SimNextHandlerOverwrites(s, selected_key) ==
  LET s1 == IF Len(s.user_answers) = 0
            THEN [s EXCEPT !.user_answers = Append(s.user_answers, selected_key)]
            ELSE [s EXCEPT !.user_answers[Len(s.user_answers)] = selected_key]
  IN IF s.current_index + 1 < Len(s.quiz_data)
     THEN [s1 EXCEPT !.current_index = s.current_index + 1]
     ELSE [s1 EXCEPT !.quiz_finished = TRUE, !.game_active = FALSE]

\* lines 253-264
SimNextHandler(s, selected_key) ==
  LET s1 == IF s.current_index = Len(s.user_answers)
            THEN [s EXCEPT !.user_answers = Append(s.user_answers, selected_key)]
            ELSE [s EXCEPT !.user_answers[s.current_index + 1] = selected_key]
  IN IF s.current_index + 1 < Len(s.quiz_data)
     THEN [s1 EXCEPT !.current_index = s.current_index + 1]
     ELSE [s1 EXCEPT !.quiz_finished = TRUE, !.game_active = FALSE]

\* line 257 raises IndexError when current_idx is past the end of user_answers
SimNextRaises(s) == s.current_index > Len(s.user_answers)

\* lines 247-267
SimNext ==
  /\ GameScreen(session_state)
  /\ GameRenders(session_state)
  /\ session_state.simulation_mode
  /\ IF user_choice = None
     THEN /\ session_state' = session_state
          /\ user_choice' = user_choice
          /\ last_run' = Ran("Next / Finish", "Please select an option first!")
     ELSE IF SimNextRaises(session_state)
     THEN /\ session_state' = session_state
          /\ user_choice' = user_choice
          /\ last_run' = Ran("Next / Finish", "IndexError")
     ELSE /\ LET s1 == SimNextHandler(session_state, user_choice)
             IN /\ GameOverScreen(s1) => Len(s1.history) < MaxHistory
                /\ session_state' = Render(s1, pre_selected(s1))
                /\ user_choice' = pre_selected(s1)
          /\ last_run' = Ran("Next / Finish", "")
  /\ UNCHANGED clipboard

\* a Home button that leaves the history_saved marker
HomeHandlerKeepsMarker(s) ==
  [s EXCEPT !.sim_scored = FALSE, !.quiz_finished = FALSE, !.game_active = FALSE]

\* lines 309-314
HomeHandler(s) ==
  [s EXCEPT !.history_saved = FALSE, !.sim_scored = FALSE,
            !.quiz_finished = FALSE, !.game_active = FALSE]

\* a Retry that keeps the recorded answers
RetryHandlerKeepsAnswers(s) ==
  LET missed_qs == s.incorrect_indices
  IN [s EXCEPT !.history_saved = FALSE, !.sim_scored = FALSE,
               !.quiz_data = missed_qs,
               !.current_index = 0,
               !.score = 0,
               !.incorrect_indices = <<>>,
               !.quiz_finished = FALSE,
               !.game_active = TRUE]

\* lines 319-330
RetryHandler(s) ==
  LET missed_qs == s.incorrect_indices
  IN [s EXCEPT !.history_saved = FALSE, !.sim_scored = FALSE,
               !.quiz_data = missed_qs,
               !.current_index = 0,
               !.score = 0,
               !.incorrect_indices = <<>>,
               !.user_answers = <<>>,
               !.quiz_finished = FALSE,
               !.game_active = TRUE]

\* lines 335-345
NewExamHandler(s) ==
  [s EXCEPT !.history_saved = FALSE, !.sim_scored = FALSE,
            !.current_index = 0,
            !.score = 0,
            !.incorrect_indices = <<>>,
            !.user_answers = <<>>,
            !.quiz_finished = FALSE,
            !.game_active = FALSE]

HomeButton ==
  /\ GameOverScreen(session_state)
  /\ GameOverRenders(session_state)
  /\ LET s1 == HomeHandler(RenderGameOver(session_state))
     IN session_state' = Render(s1, None)
  /\ user_choice' = None
  /\ last_run' = Ran("Home Screen", "")
  /\ UNCHANGED clipboard

RetryMissed ==
  /\ GameOverScreen(session_state)
  /\ GameOverRenders(session_state)
  /\ LET s0 == RenderGameOver(session_state)
         s1 == RetryHandler(s0)
     IN /\ Len(s0.incorrect_indices) > 0
        /\ session_state' = Render(s1, pre_selected(s1))
        /\ user_choice' = pre_selected(s1)
  /\ last_run' = Ran("Retry Missed", "")
  /\ UNCHANGED clipboard

NewExam ==
  /\ GameOverScreen(session_state)
  /\ GameOverRenders(session_state)
  /\ LET s1 == NewExamHandler(RenderGameOver(session_state))
     IN session_state' = Render(s1, None)
  /\ user_choice' = None
  /\ last_run' = Ran("New Exam", "")
  /\ UNCHANGED clipboard

\* a run of the script with no button pressed (any other widget interaction)
Rerender ==
  /\ session_state' = Render(session_state, user_choice)
  /\ UNCHANGED <<user_choice, clipboard, last_run>>

Next ==
  \/ StartNewExam
  \/ ResumeSaved
  \/ ResumeMalformed
  \/ SaveProgress
  \/ QuitToMenu
  \/ SelectOption
  \/ SubmitAnswer
  \/ NextQuestion
  \/ SimNext
  \/ HomeButton
  \/ RetryMissed
  \/ NewExam
  \/ Rerender

Spec == Init /\ [][Next]_vars

\* ---- save codes that Save Progress did not produce ----
\* JSON objects with fields missing: {} ; {"score": 1} ; a Simulation session
\* without index, score and answers ; a Study session without its score
ObjectCode(state_data) == b64encode(json_dumps(state_data))

ForeignCodes ==
  {ObjectCode(<<>>),
   ObjectCode([score |-> 1]),
   ObjectCode([quiz_data |-> raw_questions, simulation_mode |-> TRUE]),
   ObjectCode([quiz_data |-> raw_questions, current_index |-> 1,
               incorrect_indices |-> <<raw_questions[1]>>])}

ResumeForeign == \E code \in ForeignCodes : Resume(code)

\* the runs in which the codes pasted come from elsewhere
NextLenient ==
  \/ StartNewExam
  \/ ResumeForeign
  \/ ResumeMalformed
  \/ QuitToMenu
  \/ SelectOption
  \/ SubmitAnswer
  \/ NextQuestion
  \/ SimNext
  \/ HomeButton
  \/ RetryMissed
  \/ NewExam
  \/ Rerender

SpecLenient == Init /\ [][NextLenient]_vars

\* ---- properties ----
Finished == GameOverScreen(session_state)
Active == GameScreen(session_state)
AtHome == HomeScreen(session_state)
Study == ~session_state.simulation_mode
Loaded == last_run.button = "Resume" /\ last_run.result = "Loaded!"

\* C1: in every reachable state (loads only of codes Save Progress produced)
\* the score is at least 0 and at most the number of questions of the session.
C1_ScoreInRange ==
  /\ 0 <= session_state.score
  /\ session_state.score <= Len(session_state.quiz_data)

\* C2: a Study-mode session that is Finished has had every question scored
\* exactly once: score + len(incorrect_indices) = len(quiz_data).
C2_StudyFinishedAllScored ==
  (Finished /\ Study) =>
    session_state.score + Len(session_state.incorrect_indices)
      = Len(session_state.quiz_data)

Payload(code) == code.text.value
DecodesToObject(code) == code.b64 /\ code.text.json /\ code.text.object
NormalizedActive(s) == s.game_active /\ ~s.quiz_finished /\ ~s.answer_submitted

\* C3: the code Save Progress shows decodes to the seven saved fields as
\* they are at the moment of Save, and a Resume with it leaves exactly those
\* values in the session, whatever was there before, with the status set to
\* Active (game_active, not quiz_finished, not answer_submitted).
C3_SaveLoadRoundTrip ==
  [][ /\ (last_run'.button = "Save Progress") =>
           LET r == load_save_code(session_state', clipboard')
           IN /\ r[1]
              /\ \A key \in StateKeys : r[2][key] = session_state[key]
              /\ NormalizedActive(r[2])
      /\ (AtHome /\ Loaded') =>
           /\ last_run'.code = clipboard
           /\ \A key \in StateKeys :
                /\ key \in DOMAIN Payload(clipboard)
                /\ session_state'[key] = Payload(clipboard)[key]
           /\ NormalizedActive(session_state')
    ]_vars

\* a session resumed in Simulation mode at its second question, over other state
C3_Witness ==
  /\ Loaded
  /\ session_state.simulation_mode
  /\ session_state.current_index = 1
  /\ Len(session_state.user_answers) = 1
  /\ Len(session_state.history) = 1

\* C4: a Resume with a code that does not decode (not base64, not JSON, not
\* an object) reports "Invalid Code." and changes nothing in the session.
C4_FailedLoadChangesNothing ==
  [][ (last_run'.button = "Resume" /\ ~DecodesToObject(last_run'.code)) =>
        /\ last_run'.result = "Invalid Code."
        /\ session_state' = session_state
        /\ user_choice' = user_choice
    ]_vars

\* a failed Resume over a session left with Quit to Menu while its answer was shown
C4_Witness ==
  /\ last_run.result = "Invalid Code."
  /\ session_state.score > 0
  /\ session_state.answer_submitted
  /\ Len(session_state.history) > 0

\* C5: history gets one entry when a session becomes Finished, none while the
\* finished screen is shown again, none on Quit to Menu, and it changes in no
\* other step except a successful Resume.
C5_HistoryOncePerFinished ==
  [][ LET h == session_state.history
          h2 == session_state'.history
      IN /\ (~Finished /\ Finished') =>
              (Len(h2) = Len(h) + 1 /\ SubSeq(h2, 1, Len(h)) = h)
         /\ (Finished /\ Finished') => h2 = h
         /\ (Active /\ AtHome') => h2 = h
         /\ (h2 # h) => ((~Finished /\ Finished') \/ (AtHome /\ Loaded'))
    ]_vars

\* a finished session with its entry, after a Save made before any entry
C5_Witness ==
  /\ Finished
  /\ session_state.history_saved
  /\ Len(session_state.history) = 1
  /\ DecodesToObject(clipboard)
  /\ Len(Payload(clipboard).history) = 0
  /\ Payload(clipboard).quiz_data = session_state.quiz_data

\* the positions answered with the answer key, and the questions at the others
CorrectPositions(quiz, answers) ==
  {i \in 1..Len(quiz) : i <= Len(answers) /\ answers[i] = quiz[i].answer_key}

MissedInOrder(quiz, answers) ==
  LET positions == [i \in 1..Len(quiz) |-> i]
      wrong == SelectSeq(positions, LAMBDA i : i \notin CorrectPositions(quiz, answers))
  IN [k \in 1..Len(wrong) |-> quiz[wrong[k]]]

\* C6: a Finished Simulation session has score = the number of positions
\* answered with the answer key and incorrect_indices = the questions at the
\* other positions in order, so score + len(incorrect_indices) =
\* len(quiz_data); scoring it with only the first k answers recorded counts
\* the positions without an answer as incorrect.
C6_SimulationFinalScore ==
  (Finished /\ session_state.simulation_mode) =>
    LET quiz == session_state.quiz_data
        answers == session_state.user_answers
    IN /\ session_state.score = Cardinality(CorrectPositions(quiz, answers))
       /\ session_state.incorrect_indices = MissedInOrder(quiz, answers)
       /\ session_state.score + Len(session_state.incorrect_indices) = Len(quiz)
       /\ \A k \in 0..Len(answers) :
            LET part == SubSeq(answers, 1, k)
                r == SimScore([session_state EXCEPT !.user_answers = part,
                                                    !.sim_scored = FALSE])
            IN /\ r.score = Cardinality(CorrectPositions(quiz, part))
               /\ r.incorrect_indices = MissedInOrder(quiz, part)
               /\ \A i \in (k + 1)..Len(quiz) : i \notin CorrectPositions(quiz, part)

\* a finished Simulation session of two questions, one right and one wrong
C6_Witness ==
  /\ Finished
  /\ session_state.simulation_mode
  /\ Len(session_state.quiz_data) = 2
  /\ session_state.score = 1
  /\ Len(session_state.incorrect_indices) = 1

\* C7: once a session is Finished, one more run of the finished screen leaves
\* score and incorrect_indices as they are, in either mode.
C7_FinalizeIdempotent ==
  Finished =>
    LET r == Render(session_state, user_choice)
    IN /\ r.score = session_state.score
       /\ r.incorrect_indices = session_state.incorrect_indices

\* a finished, scored Simulation session with a missed question
C7_Witness ==
  /\ Finished
  /\ session_state.simulation_mode
  /\ session_state.sim_scored
  /\ Len(session_state.incorrect_indices) > 0
  /\ session_state.score > 0

\* C8: Retry Missed starts an Active session on the missed questions, in their
\* order, with index 0, score 0, no missed questions, no recorded answers,
\* the mode of the finished session and no answer shown.
C8_RetryMissed ==
  [][ (Finished /\ Active') =>
        /\ Len(session_state.incorrect_indices) > 0
        /\ session_state'.quiz_data = session_state.incorrect_indices
        /\ session_state'.current_index = 0
        /\ session_state'.score = 0
        /\ session_state'.incorrect_indices = <<>>
        /\ session_state'.user_answers = <<>>
        /\ session_state'.simulation_mode = session_state.simulation_mode
        /\ ~session_state'.answer_submitted
    ]_vars

\* a Simulation session retrying two missed questions
C8_Witness ==
  /\ last_run.button = "Retry Missed"
  /\ Active
  /\ session_state.simulation_mode
  /\ Len(session_state.quiz_data) = 2

\* C9: history changes only by one entry appended at its end, except in a
\* successful Resume, after which it is exactly the ledger stored in the code.
C9_HistoryAppendOrReplace ==
  [][ LET h == session_state.history
          h2 == session_state'.history
      IN IF AtHome /\ Loaded'
         THEN h2 = Payload(last_run'.code).history
         ELSE h2 = h \/ (Len(h2) = Len(h) + 1 /\ SubSeq(h2, 1, Len(h)) = h)
    ]_vars

\* a Resume that dropped the entry of a session finished after the Save
C9_Witness ==
  /\ Loaded
  /\ Len(session_state.history) = 0
  /\ ~session_state.simulation_mode
  /\ session_state.current_index = 1

\* C10: a code that decodes to an object is accepted whatever fields it
\* lacks; each missing field gets its default and the status is Active.
C10_LenientDefaults ==
  (last_run.button = "Resume" /\ DecodesToObject(last_run.code)) =>
    LET d == Payload(last_run.code)
        missing(key) == key \notin DOMAIN d
    IN /\ last_run.result = "Loaded!"
       /\ missing("current_index") => session_state.current_index = 0
       /\ missing("score") => session_state.score = 0
       /\ missing("quiz_data") => session_state.quiz_data = <<>>
       /\ missing("history") => session_state.history = <<>>
       /\ missing("incorrect_indices") => session_state.incorrect_indices = <<>>
       /\ missing("user_answers") => session_state.user_answers = <<>>
       /\ missing("simulation_mode") => ~session_state.simulation_mode
       /\ \A key \in StateKeys \cap DOMAIN d : session_state[key] = d[key]
       /\ NormalizedActive(session_state)

\* the empty object loaded over a session that had a history and a score
C10_Witness ==
  /\ Loaded
  /\ DOMAIN Payload(last_run.code) = {}
  /\ session_state.scored_current

\* C11: whenever the session is active, also after a Resume with a code whose
\* missing fields took their defaults, there is a current question:
\* quiz_data is not empty and 0 <= current_index < len(quiz_data).
C11_CurrentQuestionExists ==
  Active =>
    /\ Len(session_state.quiz_data) > 0
    /\ 0 <= session_state.current_index
    /\ session_state.current_index < Len(session_state.quiz_data)

NoSelection == "Please select an option first!"

\* C12: Submit Answer (Study) or Next / Finish (Simulation) pressed with no
\* option selected reports the missing selection and changes nothing in the
\* session.
C12_NoSelectionChangesNothing ==
  [][ /\ (/\ last_run'.button \in {"Submit Answer", "Next / Finish"}
          /\ user_choice = None
          /\ (last_run' # last_run \/ last_run.result = NoSelection)) =>
           /\ last_run'.result = NoSelection
           /\ session_state' = session_state
           /\ user_choice' = user_choice
      /\ (last_run'.result = NoSelection) => session_state' = session_state
    ]_vars

\* a Simulation session at its second question after Next / Finish without a choice
C12_Witness ==
  /\ last_run.button = "Next / Finish"
  /\ last_run.result = NoSelection
  /\ session_state.current_index = 1
  /\ Len(session_state.user_answers) = 1

\* C13: in Study mode every Submit with a selection scores the current
\* question once: the answer key adds 1 to score and leaves incorrect_indices,
\* any other key appends the question to incorrect_indices and leaves score.
C13_SubmitScoresOnce ==
  [][ (/\ Active /\ Study /\ ~session_state.answer_submitted
       /\ Active' /\ session_state'.answer_submitted) =>
        LET q == session_state.quiz_data[session_state.current_index + 1]
        IN IF user_choice = q.answer_key
           THEN /\ session_state'.score = session_state.score + 1
                /\ session_state'.incorrect_indices = session_state.incorrect_indices
           ELSE /\ session_state'.score = session_state.score
                /\ session_state'.incorrect_indices =
                     Append(session_state.incorrect_indices, q)
    ]_vars

\* ---- a Study run answered with the answer key every time ----
\* the user picks the option that is the answer key of the current question
SelectAnswerKey ==
  /\ GameScreen(session_state)
  /\ GameRenders(session_state)
  /\ ~session_state.answer_submitted
  /\ LET key == session_state.quiz_data[session_state.current_index + 1].answer_key
     IN /\ key # user_choice
        /\ user_choice' = key
        /\ session_state' = RenderGame(session_state, key)
  /\ last_run' = Ran("Select Answer", "")
  /\ UNCHANGED clipboard

\* sessions started with Start New Exam and driven by Submit and Next (or
\* Next / Finish), each possibly left with Quit to Menu
NextAllCorrect ==
  \/ StartNewExam
  \/ SelectAnswerKey
  \/ SubmitAnswer
  \/ NextQuestion
  \/ SimNext
  \/ QuitToMenu
  \/ HomeButton
  \/ Rerender

SpecAllCorrect == Init /\ [][NextAllCorrect]_vars

\* C14: in Study mode Next clears answer_submitted and either adds 1 to
\* current_index and stays Active (current_index + 1 < len(quiz_data)) or
\* finishes the session; current_index never decreases within a session; a
\* session started with Start New Exam and answered correctly throughout
\* finishes with score = len(quiz_data) and no missed question.
C14_StudyNextAndAllCorrect ==
  [][ /\ (Active /\ Study /\ session_state.answer_submitted
          /\ last_run'.button = "Next Question") =>
           /\ ~session_state'.answer_submitted
           /\ IF session_state.current_index + 1 < Len(session_state.quiz_data)
              THEN Active' /\ session_state'.current_index
                                = session_state.current_index + 1
              ELSE Finished'
      /\ (Active /\ Study /\ Active' /\ last_run'.button # "Start New Exam") =>
           session_state'.current_index >= session_state.current_index
      /\ (Finished' /\ Study') =>
           /\ session_state'.score = Len(session_state'.quiz_data)
           /\ session_state'.incorrect_indices = <<>>
    ]_vars

Simulation == session_state.simulation_mode

\* C15: an active Simulation session never shows an answer
\* (answer_submitted is false); while it stays unfinished score and
\* incorrect_indices do not change; a Next / Finish with a selection puts the
\* selected key at position current_index and moves on in the same step.
C15_SimulationNoInterimScoring ==
  [][ /\ (Active' /\ Simulation') => ~session_state'.answer_submitted
      /\ (Active /\ Simulation /\ ~Finished') =>
           /\ session_state'.score = session_state.score
           /\ session_state'.incorrect_indices = session_state.incorrect_indices
      /\ (/\ Active /\ Simulation /\ user_choice # None
          /\ last_run'.button = "Next / Finish" /\ last_run'.result = ""
          /\ session_state' # session_state) =>
           /\ Len(session_state'.user_answers) > session_state.current_index
           /\ session_state'.user_answers[session_state.current_index + 1] = user_choice
           /\ IF session_state.current_index + 1 < Len(session_state.quiz_data)
              THEN Active' /\ session_state'.current_index
                                = session_state.current_index + 1
              ELSE Finished'
    ]_vars

\* a Simulation session moved to its second question with a wrong answer recorded
C15_Witness ==
  /\ Active
  /\ Simulation
  /\ last_run.button = "Next / Finish"
  /\ last_run.result = ""
  /\ session_state.current_index = 1
  /\ session_state.user_answers[1] # session_state.quiz_data[1].answer_key
  /\ session_state.score = 0
  /\ session_state.incorrect_indices = <<>>

\* C16: the entry written when a session becomes Finished is the last of
\* history and carries that session's final score over its number of
\* questions, with the percentage rounded to one decimal; in Simulation mode
\* the score it carries is the finalized one.
C16_HistoryEntryHasFinalScore ==
  [][ (~Finished /\ Finished') =>
        LET h2 == session_state'.history
            entry == h2[Len(h2)]
            total == Len(session_state'.quiz_data)
        IN /\ Len(h2) > 0
           /\ entry.Score = <<session_state'.score, total>>
           /\ 2 * (entry.ScorePct * total - 1000 * session_state'.score) <= total
           /\ 2 * (1000 * session_state'.score - entry.ScorePct * total) < total
           /\ Simulation' =>
                session_state'.score =
                  Cardinality(CorrectPositions(session_state'.quiz_data,
                                               session_state'.user_answers))
    ]_vars

\* a finished Simulation session of two questions with the entry 1/2, 50.0 %
C16_Witness ==
  /\ Finished
  /\ Simulation
  /\ session_state.score = 1
  /\ Len(session_state.history) = 1
  /\ session_state.history[1] = [Score |-> <<1, 2>>, ScorePct |-> 500]

\* C17: Start New Exam, from any home-screen state and for every choice of
\* mode, count and shuffling, gives an Active session with current_index 0,
\* score 0, no recorded answers, no missed questions, no answer shown and the
\* chosen mode, whose quiz_data has the requested count of bank questions,
\* none twice, and is the first count questions of the bank when shuffling is
\* off; the state right after Start New Exam is such a state.
C17_StartNewExam ==
  LET Fresh(s) ==
        /\ GameScreen(s)
        /\ s.current_index = 0
        /\ s.score = 0
        /\ s.user_answers = <<>>
        /\ s.incorrect_indices = <<>>
        /\ ~s.answer_submitted
      FromBankOnce(quiz) ==
        /\ \A i \in 1..Len(quiz) : \E j \in 1..BankSize : quiz[i] = raw_questions[j]
        /\ \A i, j \in 1..Len(quiz) : quiz[i] = quiz[j] => i = j
  IN /\ AtHome =>
          \A shuffle_opt \in BOOLEAN, sim_mode \in BOOLEAN,
             q_limit \in 1..BankSize, p \in Shuffles :
            LET s1 == StartExam(session_state, shuffle_opt, sim_mode, q_limit, p)
                s2 == Render(s1, pre_selected(s1))
            IN /\ Fresh(s2)
               /\ s2.simulation_mode = sim_mode
               /\ Len(s2.quiz_data) = q_limit
               /\ FromBankOnce(s2.quiz_data)
               /\ ~shuffle_opt =>
                    s2.quiz_data = [i \in 1..q_limit |-> raw_questions[i]]
     /\ (last_run.button = "Start New Exam") =>
          /\ Fresh(session_state)
          /\ Len(session_state.quiz_data) \in 1..BankSize
          /\ FromBankOnce(session_state.quiz_data)
          /\ user_choice = None

\* a shuffled Simulation exam started after a Simulation session was left
\* with an answer recorded
C17_Witness ==
  /\ Active
  /\ last_run.button = "Start New Exam"
  /\ Simulation
  /\ Len(session_state.quiz_data) = 2
  /\ session_state.quiz_data # raw_questions
  /\ session_state.scored_current

\* C18: in every active Study-mode state score <= current_index + (1 if the
\* answer is shown else 0), so the accuracy shown is within [0, 1].
C18_AccuracyWithinUnit ==
  (Active /\ Study) =>
    /\ 0 <= session_state.score
    /\ session_state.score <= qs_answered(session_state)

\* C19: in every active Simulation state len(user_answers) = current_index;
\* a Next / Finish with a selection appends the selected key and keeps the
\* answers recorded before; a Finished Simulation session has one answer per
\* question.
C19_OneAnswerPerPosition ==
  [][ /\ (Active' /\ Simulation') =>
           Len(session_state'.user_answers) = session_state'.current_index
      /\ (Finished' /\ Simulation') =>
           Len(session_state'.user_answers) = Len(session_state'.quiz_data)
      /\ (Active /\ Simulation
          /\ session_state'.user_answers # session_state.user_answers) =>
           /\ user_choice # None
           /\ session_state'.user_answers = Append(session_state.user_answers, user_choice)
    ]_vars

\* a finished Simulation session of two questions with both answers recorded
C19_Witness ==
  /\ Finished
  /\ Simulation
  /\ Len(session_state.quiz_data) = 2
  /\ Len(session_state.user_answers) = 2
  /\ session_state.user_answers[1] # session_state.user_answers[2]

====
